---- MODULE Spec2Model ----
(***************************************************************************)
(* NFSSharePlugin (starcluster/plugins/extras/nfsshare.py): exporting a    *)
(* path of the master node over NFS and mounting it on the worker nodes.   *)
(*                                                                         *)
(* The state is the plugin's configuration, the remote files the plugin    *)
(* edits (/etc/exports on the master, /etc/fstab on every node), each      *)
(* node's mount table and directories, the thread pool's jobs and the      *)
(* position of the calling thread inside run / on_add_node /               *)
(* on_remove_node.  Text is kept as text: lines are strings, built with    *)
(* the format strings of the source and compared the way the source        *)
(* compares them (substring containment, regular-expression search).       *)
(***************************************************************************)
EXTENDS Integers, Sequences, FiniteSets, TLC

(* ------------------------------ bounds -------------------------------- *)

\* number of lifecycle operations the host calls one after the other
MaxOps == 2

\* number of lifecycle operations in the specification of repeated runs
MaxOpsRepeat == 3

\* number of lifecycle operations in the specification of the NFS settings
MaxOpsSettings == 1

\* number of remote calls that fail in one behaviour
MaxFaults == 1

\* worker threads of the pool
PoolSize == 2

(* ------------------------------ the cluster --------------------------- *)

MasterAlias == "master"

Workers == {"node001", "node002"}

\* the worker nodes in the order the cluster lists them
WorkerList == <<"node001", "node002">>

(* --------------------------- Python values ---------------------------- *)

\* an optional string argument: None or a str
None == [isNone |-> TRUE, s |-> ""]

Str(t) == [isNone |-> FALSE, s |-> t]

\* truth value of an optional string: None and '' are false
Truthy(v) == ~v.isNone /\ v.s # ""

\* '%s' % v
PyFormat(v) == IF v.isNone THEN "None" ELSE v.s

\* c contains l as a substring (Python's  l in c  on strings)
Contains(c, l) ==
    \E i \in 1..(Len(c) - Len(l) + 1) : SubSeq(c, i, i + Len(l) - 1) = l

StartsWith(c, l) == Len(l) <= Len(c) /\ SubSeq(c, 1, Len(l)) = l

RECURSIVE Join(_)
\* f.read() of a file kept as its sequence of lines
Join(lines) == IF lines = <<>> THEN "" ELSE Head(lines) \o Join(Tail(lines))

Range(seq) == {seq[i] : i \in DOMAIN seq}

\* index of the first blank of s, Len(s) + 1 when it has none
FirstBlank(s) ==
    IF \E i \in 1..Len(s) : SubSeq(s, i, i) = " "
    THEN CHOOSE i \in 1..Len(s) :
            /\ SubSeq(s, i, i) = " "
            /\ \A j \in 1..(i - 1) : SubSeq(s, j, j) # " "
    ELSE Len(s) + 1

\* first and second blank-separated field of a line of /etc/fstab or
\* /proc/mounts: the device and the mount point
Field1(s) == SubSeq(s, 1, FirstBlank(s) - 1)

AfterField1(s) == SubSeq(s, FirstBlank(s) + 1, Len(s))

Field2(s) == Field1(AfterField1(s))

(* ------------------------------- state -------------------------------- *)

VARIABLES
    \* the plugin object (set by __init__, never assigned afterwards)
    nfs_mounts,            \* {server_path: client_path}
    nfs_export_settings,   \* optional string
    nfs_mount_settings,    \* optional string
    link_on_master,        \* boolean
    \* the remote nodes
    etc_exports,           \* lines of /etc/exports on the master
    master_fs,             \* paths that exist on the master
    etc_fstab,             \* node -> lines of its /etc/fstab
    mount_map,             \* node -> set of <<network device, mount point>>
    node_fs,               \* node -> paths that exist on it
    \* the lifecycle operation in progress (the calling thread)
    op,                    \* "idle", "run", "on_add_node", "on_remove_node"
    pc,                    \* position of the calling thread in it
    nodes,                 \* the nodes argument of _setup_nfs / the removed node
    arg_link,              \* the link_on_master argument of _setup_nfs
    idx,                   \* index of the calling thread's current loop
    contents,              \* /etc/exports as read by _export_fs_to_nodes
    exc,                   \* the exception propagating in the calling thread
    raised_at,             \* the step of the calling thread that raised it
    \* the thread pool
    task,                  \* node -> its job: pc, mount_paths, loop index
    shutdowns,             \* calls of pool.shutdown() in this operation
    \* observation
    cmds,                  \* remote commands of this operation, in issue order
    prev,                  \* the operation that ended before this one began
    start,                 \* the remote state when this operation began
    opsLeft,               \* operations the host may still start
    faults                 \* remote calls that have failed so far

cfg == <<nfs_mounts, nfs_export_settings, nfs_mount_settings, link_on_master>>

remote == <<etc_exports, master_fs, etc_fstab, mount_map, node_fs>>

caller == <<op, pc, nodes, arg_link, idx, contents, exc, raised_at>>

vars == <<cfg, remote, caller, task, shutdowns, cmds, prev, start, opsLeft,
          faults>>

(* ---------------------------- construction ---------------------------- *)

\* a or b  on optional strings
PyOr(a, b) == IF Truthy(a) THEN a ELSE b

\* the keys of a dict kept as its sequence of <<key, value>> items
Keys(d) == [i \in DOMAIN d |-> d[i][1]]

Values(d) == [i \in DOMAIN d |-> d[i][2]]

\* d[k]
Lookup(d, k) == d[CHOOSE i \in DOMAIN d : d[i][1] = k][2]

\* __init__: the plugin's fields from its arguments
PluginInit(server_path, client_path, export_settings, mount_settings, link) ==
    /\ nfs_mounts = <<<<server_path, PyOr(client_path, Str(server_path)).s>>>>
    /\ nfs_export_settings = export_settings
    /\ nfs_mount_settings = mount_settings
    /\ link_on_master = link

\* a job of the pool that has not been submitted
NoTask == [pc |-> "none", mount_paths |-> <<>>, i |-> 0]

NoPrev == [op |-> "idle", ok |-> FALSE, nodes |-> <<>>]

\* a cluster that has just been started: nothing exported, nothing mounted
FreshCluster(server_path, masterHasClientPath, client) ==
    /\ etc_exports = <<>>
    /\ master_fs = {server_path} \cup
                   (IF masterHasClientPath THEN {client} ELSE {})
    /\ etc_fstab = [n \in Workers |-> <<"proc /proc proc defaults 0 0\n">>]
    /\ mount_map = [n \in Workers |-> {}]
    /\ node_fs = [n \in Workers |-> {}]

\* no lifecycle operation has been called yet
Idle(ops) ==
    /\ op = "idle"
    /\ pc = "returned"
    /\ nodes = <<>>
    /\ arg_link = TRUE
    /\ idx = 0
    /\ contents = ""
    /\ exc = "none"
    /\ raised_at = "none"
    /\ task = [n \in Workers |-> NoTask]
    /\ shutdowns = 0
    /\ cmds = <<>>
    /\ prev = NoPrev
    /\ start = [etc_exports |-> etc_exports, master_fs |-> master_fs,
                etc_fstab |-> etc_fstab, mount_map |-> mount_map,
                 node_fs |-> node_fs]
    /\ opsLeft = ops
    /\ faults = 0

\* the plugin with the NFS settings left to their defaults, on a fresh
\* cluster: every choice of client_path and link_on_master, the client path
\* present on the master or not
Init ==
    /\ \E client_path \in {None, Str("/share")}, link \in BOOLEAN :
            PluginInit("/mnt", client_path, None, None, link)
    /\ \E masterHasClientPath \in BOOLEAN :
            FreshCluster("/mnt", masterHasClientPath, nfs_mounts[1][2])
    /\ Idle(MaxOps)

\* every choice of the two NFS settings, for one lifecycle operation
InitSettings ==
    /\ \E client_path \in {None, Str("/share")},
          export_nfs_settings \in {None, Str("sync,rw")},
          mount_nfs_settings \in {None, Str("vers=4,rw")} :
            PluginInit("/mnt", client_path, export_nfs_settings,
                       mount_nfs_settings, TRUE)
    /\ FreshCluster("/mnt", FALSE, nfs_mounts[1][2])
    /\ Idle(MaxOpsSettings)

\* one configuration (the one of the class's docstring), for repeated
\* lifecycle operations
InitRepeat ==
    /\ PluginInit("/mnt", Str("/share"), None, None, TRUE)
    /\ FreshCluster("/mnt", FALSE, nfs_mounts[1][2])
    /\ Idle(MaxOpsRepeat)

(* --------------------------- remote execution ------------------------- *)

\* the log after  host.ssh.execute(cmd); ok: the command exited with status 0
Log(host, cmd, ok) == Append(cmds, [host |-> host, cmd |-> cmd, ok |-> ok])

\* a remote call fails (non-zero exit status, connection or file error)
Fails == faults < MaxFaults /\ faults' = faults + 1

Succeeds == UNCHANGED faults

\* Raise with the pool shut down at the end of the try block instead of in a
\* finally clause
Raise_SkipsFinally == pc' = "returned" /\ exc' = "error" /\ raised_at' = pc

\* Raise with the exception caught and logged inside _setup_nfs
Raise_Continues ==
    /\ pc' = IF pc \in {"link", "export", "export_write", "exportfs"}
             THEN "dispatch" ELSE "finally"
    /\ exc' = "error"
    /\ raised_at' = pc

\* an exception leaves the try block of the lifecycle operation
Raise == pc' = "finally" /\ exc' = "error" /\ raised_at' = pc

(* ------------------------ the lifecycle operations --------------------- *)

\* the host calls a lifecycle hook: the first lines of its try block
Begin(name, ns, link, first) ==
    /\ pc = "returned"
    /\ opsLeft > 0
    /\ opsLeft' = opsLeft - 1
    /\ prev' = [op |-> op, ok |-> op # "idle" /\ exc = "none", nodes |-> nodes]
    /\ start' = [etc_exports |-> etc_exports, master_fs |-> master_fs,
                 etc_fstab |-> etc_fstab, mount_map |-> mount_map,
                 node_fs |-> node_fs]
    /\ op' = name
    /\ pc' = first
    /\ nodes' = ns
    /\ arg_link' = link
    /\ idx' = 1
    /\ contents' = ""
    /\ exc' = "none"
    /\ raised_at' = "none"
    /\ task' = [n \in Workers |-> NoTask]
    /\ shutdowns' = 0
    /\ cmds' = <<>>
    /\ UNCHANGED <<cfg, remote, faults>>

\* run: _setup_nfs on self.nodes, the worker nodes of the cluster, with the
\* configured link_on_master
run == Begin("run", WorkerList, link_on_master, "link")

\* on_add_node: _setup_nfs on [node]; link_on_master is not passed, so
\* _setup_nfs takes its default, True
on_add_node(node) == Begin("on_add_node", <<node>>, TRUE, "link")

\* on_remove_node without the call of _remove_nfs_exports
on_remove_node_UnmountOnly(node) ==
    Begin("on_remove_node", <<node>>, TRUE, "unmount")

\* on_remove_node: _remove_nfs_exports(node), then _unmount_shares(node)
on_remove_node(node) ==
    Begin("on_remove_node", <<node>>, TRUE, "remove_nfs_exports")

(* ------------------------------ _setup_nfs ----------------------------- *)

\* SetupNfsSteps with _mount_nfs_shares called before _export_fs_to_nodes
SetupNfsSteps_MountFirst ==
    <<"link", "dispatch", "wait", "export", "export_write", "exportfs",
      "finally">>

\* the statements of _setup_nfs in the order they are written: the link loop,
\* _export_fs_to_nodes (read, write loop, exportfs), _mount_nfs_shares
\* (dispatch loop, wait); "finally" is the caller's finally clause
SetupNfsSteps ==
    <<"link", "export", "export_write", "exportfs", "dispatch", "wait",
      "finally">>

\* the step that follows step p
StepAfter(p) ==
    SetupNfsSteps[(CHOOSE i \in DOMAIN SetupNfsSteps : SetupNfsSteps[i] = p) + 1]

\* NeedsLink without the look at the master's file system
NeedsLink_IgnoresExisting(path, target, fs) == path # target

\* path != nfs_mounts[path] and not master.ssh.path_exists(nfs_mounts[path])
NeedsLink(path, target, fs) == path # target /\ target \notin fs

\* where the calling thread goes after iteration idx of a loop of length n
LoopNext(n, after) ==
    IF idx < n THEN idx' = idx + 1 /\ pc' = pc ELSE idx' = 1 /\ pc' = after

\* one iteration of the link loop: ln -s path nfs_mounts[path] on the master
\* when the two differ and the second does not exist there.  Both callers
\* pass start_server=False, so the loop is followed by the export.
setup_nfs_link ==
    /\ pc = "link"
    /\ LET path == Keys(nfs_mounts)[idx]
           target == Lookup(nfs_mounts, path)
           cmd == "ln -s " \o path \o " " \o target
       IN  \/ /\ ~arg_link
              /\ pc' = StepAfter(pc) /\ idx' = 1
              /\ Succeeds
              /\ UNCHANGED <<remote, cmds, exc, raised_at>>
           \/ /\ arg_link
              /\ ~NeedsLink(path, target, master_fs)
              /\ LoopNext(Len(nfs_mounts), StepAfter(pc))
              /\ Succeeds
              /\ UNCHANGED <<remote, cmds, exc, raised_at>>
           \/ /\ arg_link
              /\ NeedsLink(path, target, master_fs)
              /\ master_fs' = master_fs \cup {target}
              /\ cmds' = Log(MasterAlias, cmd, TRUE)
              /\ LoopNext(Len(nfs_mounts), StepAfter(pc))
              /\ Succeeds
              /\ UNCHANGED <<etc_exports, etc_fstab, mount_map, node_fs, exc,
                             raised_at>>
           \/ /\ arg_link
              /\ NeedsLink(path, target, master_fs)
              /\ cmds' = Log(MasterAlias, cmd, FALSE)
              /\ Fails /\ Raise
              /\ UNCHANGED <<remote, idx>>
           \/ /\ arg_link
              /\ path # target
              /\ Fails /\ Raise  \* path_exists raises
              /\ UNCHANGED <<remote, cmds, idx>>
    /\ UNCHANGED <<cfg, op, nodes, arg_link, contents, task, shutdowns, prev,
                   start, opsLeft>>

(* -------------------------- _export_fs_to_nodes ------------------------ *)

DefaultExportSettings == "(async,no_root_squash,no_subtree_check,rw)"

\* "(%s)" % nfs_export_settings or "(async,...)": % binds tighter than or,
\* so the left operand of or is the formatted string
ExportSettings(settings) ==
    LET formatted == "(" \o PyFormat(settings) \o ")"
    IN  IF formatted # "" THEN formatted ELSE DefaultExportSettings

\* ' '.join([path, node.alias + nfs_export_settings + '\n'])
ExportLine(path, alias, settings) ==
    path \o " " \o alias \o ExportSettings(settings) \o "\n"

\* ExportLinesFor leaving the loop over nodes after its first node
ExportLinesFor_FirstNodeOnly(ns, paths, settings, text) ==
    IF ns = <<>> THEN <<>>
    ELSE SelectSeq([i \in DOMAIN paths |->
                       ExportLine(paths[i], Head(ns), settings)],
                   LAMBDA l : ~Contains(text, l))

\* the lines the loop over nodes and export_paths writes: one for each
\* (node, path), node-major, unless the line occurs in contents
RECURSIVE ExportLinesFor(_, _, _, _)
ExportLinesFor(ns, paths, settings, text) ==
    IF ns = <<>> THEN <<>>
    ELSE LET lines == [i \in DOMAIN paths |->
                          ExportLine(paths[i], Head(ns), settings)]
         IN  SelectSeq(lines, LAMBDA l : ~Contains(text, l))
             \o ExportLinesFor(Tail(ns), paths, settings, text)

\* if nodes: open /etc/exports on the master, read it, close it, and open it
\* again for appending
export_read ==
    /\ pc = "export"
    /\ IF nodes = <<>>
       THEN /\ pc' = "finally"
            /\ Succeeds
            /\ UNCHANGED <<contents, exc, raised_at>>
       ELSE \/ /\ contents' = Join(etc_exports)
               /\ pc' = StepAfter(pc)
               /\ Succeeds
               /\ UNCHANGED <<exc, raised_at>>
            \/ /\ Fails /\ Raise
               /\ UNCHANGED contents
    /\ UNCHANGED <<cfg, remote, op, nodes, arg_link, idx, task, shutdowns,
                   cmds, prev, start, opsLeft>>

\* the write loop and close(): the missing lines are appended; when a write
\* or the close fails, a prefix of them has reached the file
export_write ==
    /\ pc = "export_write"
    /\ LET missing == ExportLinesFor(nodes, Keys(nfs_mounts),
                                     nfs_export_settings, contents)
       IN  \/ /\ etc_exports' = etc_exports \o missing
              /\ pc' = StepAfter(pc)
              /\ Succeeds
              /\ UNCHANGED <<exc, raised_at>>
           \/ /\ \E k \in 0..Len(missing) :
                    etc_exports' = etc_exports \o SubSeq(missing, 1, k)
              /\ Fails /\ Raise
    /\ UNCHANGED <<cfg, master_fs, etc_fstab, mount_map, node_fs, op, nodes,
                   arg_link, idx, contents, task, shutdowns, cmds, prev,
                   start, opsLeft>>

\* exportfs skipping the command when the export step added no line
exportfs_OnlyWhenChanged ==
    /\ pc = "exportfs"
    /\ \/ /\ cmds' = IF etc_exports = start.etc_exports THEN cmds
                     ELSE Log(MasterAlias, "exportfs -fra", TRUE)
          /\ pc' = StepAfter(pc)
          /\ Succeeds
          /\ UNCHANGED <<exc, raised_at>>
       \/ /\ cmds' = Log(MasterAlias, "exportfs -fra", FALSE)
          /\ Fails /\ Raise
    /\ UNCHANGED <<cfg, remote, op, nodes, arg_link, idx, contents, task,
                   shutdowns, prev, start, opsLeft>>

\* master.ssh.execute('exportfs -fra')
exportfs ==
    /\ pc = "exportfs"
    /\ \/ /\ cmds' = Log(MasterAlias, "exportfs -fra", TRUE)
          /\ pc' = StepAfter(pc)
          /\ Succeeds
          /\ UNCHANGED <<exc, raised_at>>
       \/ /\ cmds' = Log(MasterAlias, "exportfs -fra", FALSE)
          /\ Fails /\ Raise
    /\ UNCHANGED <<cfg, remote, op, nodes, arg_link, idx, contents, task,
                   shutdowns, prev, start, opsLeft>>

(* ------------------------------ the pool ------------------------------- *)

\* jobs that have ended, by returning or by raising
PoolCompleted == {n \in Workers : task[n].pc \in {"done", "failed"}}

\* jobs a worker thread is executing
PoolRunning ==
    {n \in Workers : task[n].pc \notin {"none", "queued", "done", "failed"}}

\* pool.wait(numtasks) returns once numtasks jobs have ended
PoolJoined(numtasks) == Cardinality(PoolCompleted) >= numtasks

\* a free worker thread takes the oldest queued job
worker_start(n) ==
    /\ task[n].pc = "queued"
    /\ Cardinality(PoolRunning) < PoolSize
    /\ \A j \in DOMAIN nodes :
          nodes[j] = n => \A k \in 1..(j - 1) : task[nodes[k]].pc # "queued"
    /\ task' = [task EXCEPT ![n].pc = "portmap"]
    /\ UNCHANGED <<cfg, remote, caller, shutdowns, cmds, prev, start, opsLeft,
                   faults>>

(* --------------------------- _mount_nfs_shares ------------------------- *)

\* NumTasks counting one job too few
NumTasks_OneLess(ns) == Len(ns) - 1

\* the numtasks argument of pool.wait
NumTasks(ns) == Len(ns)

\* one iteration of  for node in nodes: self.pool.simple_job(...)
mount_nfs_shares_dispatch ==
    /\ pc = "dispatch"
    /\ task' = [task EXCEPT ![nodes[idx]] =
                   [pc |-> "queued", mount_paths |-> <<>>, i |-> 0]]
    /\ LoopNext(Len(nodes), StepAfter(pc))
    /\ UNCHANGED <<cfg, remote, op, nodes, arg_link, contents, exc, raised_at,
                   shutdowns,
                   cmds, prev, start, opsLeft, faults>>

\* self.pool.wait(numtasks=len(nodes)): blocks until the jobs have ended and
\* raises when one of them raised
mount_nfs_shares_wait ==
    /\ pc = "wait"
    /\ PoolJoined(NumTasks(nodes))
    /\ pc' = StepAfter(pc)
    /\ IF \E n \in Workers : task[n].pc = "failed"
       THEN exc' = "ThreadPoolException" /\ raised_at' = pc
       ELSE UNCHANGED <<exc, raised_at>>
    /\ UNCHANGED <<cfg, remote, op, nodes, arg_link, idx, contents, task,
                   shutdowns, cmds, prev, start, opsLeft, faults>>

\* finally: self.pool.shutdown(), and the operation returns or re-raises
finally_shutdown ==
    /\ pc = "finally"
    /\ shutdowns' = shutdowns + 1
    /\ pc' = "returned"
    /\ UNCHANGED <<cfg, remote, op, nodes, arg_link, idx, contents, exc, raised_at,
                   task,
                   cmds, prev, start, opsLeft, faults>>

(* ----------------------- _mount_nfs_shares_on_node --------------------- *)

DefaultMountSettings == "vers=3,user,rw,exec,noauto"

\* "%s:%s" % (server_node.alias, path)
NetworkDevice(alias, path) == alias \o ":" \o path

\* x.center(len(x) + 2): one blank on each side
Center(x) == " " \o x \o " "

\* the alternatives of server_paths_regex, which '|'.join puts together
ServerPathsRegex(mount_paths) ==
    [i \in DOMAIN mount_paths |->
        Center(NetworkDevice(MasterAlias, mount_paths[i]))]

\* ssh.remove_lines_from_file(file, regex) for a regex that is an
\* alternation of literal texts: nothing is done for the empty regex, and
\* otherwise the lines in which an alternative occurs are dropped
RemoveLinesFromFile(lines, regex) ==
    IF regex = <<>> THEN lines
    ELSE SelectSeq(lines,
                   LAMBDA l : ~\E i \in DOMAIN regex : Contains(l, regex[i]))

\* FstabLine formatting the argument as it was passed, None included
FstabLine_FormatsNone(alias, path, client_path, settings) ==
    NetworkDevice(alias, path) \o " " \o client_path \o " nfs "
        \o PyFormat(settings) \o " 0 0\n"

\* '%s:%s %s nfs %s 0 0\n' % (alias, path, nfs_mounts[path], settings)
FstabLine(alias, path, client_path, settings) ==
    NetworkDevice(alias, path) \o " " \o client_path \o " nfs "
        \o PyOr(settings, Str(DefaultMountSettings)).s \o " 0 0\n"

\* the lines the write loop appends to /etc/fstab
FstabLines(mount_paths, settings) ==
    [i \in DOMAIN mount_paths |->
        FstabLine(MasterAlias, mount_paths[i],
                  Lookup(nfs_mounts, mount_paths[i]), settings)]

\* MountPaths looking the path up among the mount points of the table
MountPaths_ByMountPoint(table) ==
    SelectSeq(Keys(nfs_mounts), LAMBDA path : \A m \in table : m[2] # path)

\* MountPaths without the look at the mount table
MountPaths_IgnoresMountTable(table) == Keys(nfs_mounts)

\* the keys of nfs_mounts whose network device is not in the mount table
MountPaths(table) ==
    SelectSeq(Keys(nfs_mounts),
              LAMBDA path : \A m \in table :
                               m[1] # NetworkDevice(MasterAlias, path))

\* the job of node n goes to position p
Goto(n, p) == task' = [task EXCEPT ![n].pc = p]

TaskFrame == UNCHANGED <<cfg, caller, shutdowns, prev, start, opsLeft>>

\* node.ssh.execute('/etc/init.d/portmap start')
mount_portmap(n) ==
    /\ task[n].pc = "portmap"
    /\ \/ /\ cmds' = Log(n, "/etc/init.d/portmap start", TRUE)
          /\ Goto(n, "devpts")
          /\ Succeeds
       \/ /\ cmds' = Log(n, "/etc/init.d/portmap start", FALSE)
          /\ Goto(n, "failed")
          /\ Fails
    /\ UNCHANGED remote
    /\ TaskFrame

\* mount_devpts without ignore_exit_status: a non-zero exit ends the job
mount_devpts_Fatal(n) ==
    /\ task[n].pc = "devpts"
    /\ \/ /\ cmds' = Log(n, "mount -t devpts none /dev/pts", TRUE)
          /\ Goto(n, "get_mount_map")
          /\ Succeeds
       \/ /\ cmds' = Log(n, "mount -t devpts none /dev/pts", FALSE)
          /\ Goto(n, "failed")
          /\ Fails
    /\ UNCHANGED remote
    /\ TaskFrame

\* node.ssh.execute('mount -t devpts none /dev/pts', ignore_exit_status=True)
mount_devpts(n) ==
    /\ task[n].pc = "devpts"
    /\ \/ /\ cmds' = Log(n, "mount -t devpts none /dev/pts", TRUE)
          /\ Succeeds
       \/ /\ cmds' = Log(n, "mount -t devpts none /dev/pts", FALSE)
          /\ Fails
    /\ Goto(n, "get_mount_map")
    /\ UNCHANGED remote
    /\ TaskFrame

\* mount_map = node.get_mount_map() and the loop that collects mount_paths
mount_get_mount_map(n) ==
    /\ task[n].pc = "get_mount_map"
    /\ \/ /\ task' = [task EXCEPT ![n].pc = "remove_lines",
                                  ![n].mount_paths = MountPaths(mount_map[n])]
          /\ Succeeds
       \/ /\ Goto(n, "failed")
          /\ Fails
    /\ UNCHANGED <<remote, cmds>>
    /\ TaskFrame

\* node.ssh.remove_lines_from_file('/etc/fstab', server_paths_regex)
mount_remove_lines(n) ==
    /\ task[n].pc = "remove_lines"
    /\ \/ /\ etc_fstab' = [etc_fstab EXCEPT ![n] =
                RemoveLinesFromFile(@, ServerPathsRegex(task[n].mount_paths))]
          /\ Goto(n, "fstab")
          /\ Succeeds
       \/ /\ UNCHANGED etc_fstab
          /\ Goto(n, "failed")
          /\ Fails
    /\ UNCHANGED <<etc_exports, master_fs, mount_map, node_fs, cmds>>
    /\ TaskFrame

\* mount_fstab writing through the node of the last job handed to the pool
\* instead of its own
mount_fstab_LastNode(n) ==
    /\ task[n].pc = "fstab"
    /\ LET lines == FstabLines(task[n].mount_paths, nfs_mount_settings)
           node == nodes[Len(nodes)]
       IN  \/ /\ etc_fstab' = [etc_fstab EXCEPT ![node] = @ \o lines]
              /\ task' = [task EXCEPT
                    ![n].pc = IF lines = <<>> THEN "done" ELSE "makedirs",
                    ![n].i = 1]
              /\ Succeeds
           \/ /\ \E k \in 0..Len(lines) :
                    etc_fstab' = [etc_fstab EXCEPT
                                     ![node] = @ \o SubSeq(lines, 1, k)]
              /\ Goto(n, "failed")
              /\ Fails
    /\ UNCHANGED <<etc_exports, master_fs, mount_map, node_fs, cmds>>
    /\ TaskFrame

\* fstab = remote_file('/etc/fstab', 'a'), the write loop and fstab.close()
mount_fstab(n) ==
    /\ task[n].pc = "fstab"
    /\ LET lines == FstabLines(task[n].mount_paths, nfs_mount_settings)
       IN  \/ /\ etc_fstab' = [etc_fstab EXCEPT ![n] = @ \o lines]
              /\ task' = [task EXCEPT
                    ![n].pc = IF lines = <<>> THEN "done" ELSE "makedirs",
                    ![n].i = 1]
              /\ Succeeds
           \/ /\ \E k \in 0..Len(lines) :
                    etc_fstab' = [etc_fstab EXCEPT
                                     ![n] = @ \o SubSeq(lines, 1, k)]
              /\ Goto(n, "failed")
              /\ Fails
    /\ UNCHANGED <<etc_exports, master_fs, mount_map, node_fs, cmds>>
    /\ TaskFrame

\* mount_makedirs going on to the mount without creating the directory
mount_makedirs_Skips(n) ==
    /\ task[n].pc = "makedirs"
    /\ \/ /\ Goto(n, "mount")
          /\ Succeeds
       \/ /\ Goto(n, "failed")
          /\ Fails
    /\ UNCHANGED <<remote, cmds>>
    /\ TaskFrame

\* if not node.ssh.path_exists(remote_path): node.ssh.makedirs(remote_path)
mount_makedirs(n) ==
    /\ task[n].pc = "makedirs"
    /\ LET remote_path == Lookup(nfs_mounts, task[n].mount_paths[task[n].i])
       IN  \/ /\ node_fs' = [node_fs EXCEPT ![n] = @ \cup {remote_path}]
              /\ Goto(n, "mount")
              /\ Succeeds
           \/ /\ UNCHANGED node_fs
              /\ Goto(n, "failed")
              /\ Fails
    /\ UNCHANGED <<etc_exports, master_fs, etc_fstab, mount_map, cmds>>
    /\ TaskFrame

\* the fstab entry  mount <mount point>  uses: the first one for the mount point
FstabEntries(lines, mount_point) ==
    SelectSeq(lines, LAMBDA l : Field2(l) = mount_point)

\* node.ssh.execute('mount %s' % remote_path): mounts the device that
\* /etc/fstab names for the mount point; exits non-zero when it names none
mount_mount(n) ==
    /\ task[n].pc = "mount"
    /\ LET remote_path == Lookup(nfs_mounts, task[n].mount_paths[task[n].i])
           entries == FstabEntries(etc_fstab[n], remote_path)
           last == task[n].i = Len(task[n].mount_paths)
       IN  \/ /\ IF entries # <<>>
                 THEN /\ mount_map' = [mount_map EXCEPT
                            ![n] = @ \cup {<<Field1(entries[1]), remote_path>>}]
                      /\ cmds' = Log(n, "mount " \o remote_path, TRUE)
                      /\ task' = [task EXCEPT
                            ![n].pc = IF last THEN "done" ELSE "makedirs",
                            ![n].i = IF last THEN @ ELSE @ + 1]
                 ELSE /\ UNCHANGED mount_map
                      /\ cmds' = Log(n, "mount " \o remote_path, FALSE)
                      /\ Goto(n, "failed")
              /\ Succeeds
           \/ /\ UNCHANGED mount_map
              /\ cmds' = Log(n, "mount " \o remote_path, FALSE)
              /\ Goto(n, "failed")
              /\ Fails
    /\ UNCHANGED <<etc_exports, master_fs, etc_fstab, node_fs>>
    /\ TaskFrame

(* ------------------------------ removing a node ----------------------- *)

\* self._remove_nfs_exports(node), inherited from DefaultClusterSetup: the
\* master stops exporting to the node.  The lines of /etc/exports in which
\* the node's alias occurs are removed and the master runs 'exportfs -fra'.
remove_nfs_exports ==
    /\ pc = "remove_nfs_exports"
    /\ \/ /\ etc_exports' = RemoveLinesFromFile(etc_exports, <<nodes[1]>>)
          /\ cmds' = Log(MasterAlias, "exportfs -fra", TRUE)
          /\ pc' = "unmount" /\ idx' = 1
          /\ Succeeds
          /\ UNCHANGED <<exc, raised_at>>
       \/ /\ etc_exports' = RemoveLinesFromFile(etc_exports, <<nodes[1]>>)
          /\ cmds' = Log(MasterAlias, "exportfs -fra", FALSE)
          /\ Fails /\ Raise
          /\ UNCHANGED idx
       \/ /\ UNCHANGED <<etc_exports, cmds, idx>>
          /\ Fails /\ Raise
    /\ UNCHANGED <<cfg, master_fs, etc_fstab, mount_map, node_fs, op, nodes,
                   arg_link, contents, task, shutdowns, prev, start, opsLeft>>

\* one iteration of the loop of _unmount_shares over nfs_mounts.values():
\* node.ssh.execute("umount -fl %s" % path); umount exits non-zero when
\* nothing is mounted at path
unmount_shares ==
    /\ pc = "unmount"
    /\ LET node == nodes[1]
           path == Values(nfs_mounts)[idx]
           cmd == "umount -fl " \o path
           mounted == {m \in mount_map[node] : m[2] = path}
       IN  \/ /\ IF mounted # {}
                 THEN /\ mount_map' = [mount_map EXCEPT ![node] = @ \ mounted]
                      /\ cmds' = Log(node, cmd, TRUE)
                      /\ LoopNext(Len(nfs_mounts), "finally")
                      /\ UNCHANGED <<exc, raised_at>>
                 ELSE /\ UNCHANGED <<mount_map, idx>>
                      /\ cmds' = Log(node, cmd, FALSE)
                      /\ Raise
              /\ Succeeds
           \/ /\ UNCHANGED <<mount_map, idx>>
              /\ cmds' = Log(node, cmd, FALSE)
              /\ Fails /\ Raise
    /\ UNCHANGED <<cfg, etc_exports, master_fs, etc_fstab, node_fs, op, nodes,
                   arg_link, contents, task, shutdowns, prev, start, opsLeft>>

(* ---------------------------- specification ---------------------------- *)

\* a cluster whose master already has an /etc/exports: the given lines
ClusterWithExports(server_path, lines) ==
    /\ etc_exports = lines
    /\ master_fs = {server_path}
    /\ etc_fstab = [n \in Workers |-> <<"proc /proc proc defaults 0 0\n">>]
    /\ mount_map = [n \in Workers |-> {}]
    /\ node_fs = [n \in Workers |-> {}]

\* what the master's /etc/exports can hold before the plugin is used: nothing,
\* or lines that export another directory, /srv<server path>, to workers
\* with the same settings
PriorExports(server_path, settings) ==
    LET other(n) == ExportLine("/srv" \o server_path, n, settings)
    IN  {<<>>, <<other("node001")>>, <<other("node002")>>,
         <<other("node001"), other("node002")>>}

\* the plugin with export settings, on a cluster whose master exports
\* something already, for one lifecycle operation
InitPrior ==
    /\ \E client_path \in {None, Str("/share")} :
            PluginInit("/mnt", client_path, Str("rw,sync"), None, TRUE)
    /\ \E lines \in PriorExports("/mnt", nfs_export_settings) :
            ClusterWithExports("/mnt", lines)
    /\ Idle(MaxOpsSettings)

Next ==
    \/ run
    \/ \E node \in Workers : on_add_node(node)
    \/ \E node \in Workers : on_remove_node(node)
    \/ setup_nfs_link
    \/ export_read
    \/ export_write
    \/ exportfs
    \/ mount_nfs_shares_dispatch
    \/ mount_nfs_shares_wait
    \/ finally_shutdown
    \/ \E n \in Workers :
          \/ worker_start(n)
          \/ mount_portmap(n)
          \/ mount_devpts(n)
          \/ mount_get_mount_map(n)
          \/ mount_remove_lines(n)
          \/ mount_fstab(n)
          \/ mount_makedirs(n)
          \/ mount_mount(n)
    \/ remove_nfs_exports
    \/ unmount_shares

Spec == Init /\ [][Next]_vars

SpecSettings == InitSettings /\ [][Next]_vars

SpecRepeat == InitRepeat /\ [][Next]_vars

SpecPrior == InitPrior /\ [][Next]_vars

(* ------------------------------- claims -------------------------------- *)

\* the positions of the log at which host was sent cmd
Issued(host, cmd) ==
    {i \in DOMAIN cmds : cmds[i].host = host /\ cmds[i].cmd = cmd}

SetupOps == {"run", "on_add_node"}

\* C1: in run and on_add_node, when a mount job has been handed to the pool
\* for any node, the export step is over: /etc/exports holds a line for
\* every (path, target node) and 'exportfs -fra' has run on the master.
C1_ExportBeforeMount ==
    (op \in SetupOps /\ \E n \in Workers : task[n].pc # "none") =>
        /\ \E i \in Issued(MasterAlias, "exportfs -fra") : cmds[i].ok
        /\ \A j \in DOMAIN nodes : \A k \in DOMAIN nfs_mounts :
              Contains(Join(etc_exports),
                       nfs_mounts[k][1] \o " " \o nodes[j] \o "(")
        /\ pc \in {"dispatch", "wait", "finally", "returned"}

\* run has handed the first node's job to the pool and not yet the second's
C1_Witness ==
    /\ op = "run"
    /\ pc = "dispatch"
    /\ task["node001"].pc # "none"
    /\ task["node002"].pc = "none"
    /\ Issued(MasterAlias, "exportfs -fra") # {}

\* C2: the pool is shut down exactly once by every lifecycle operation, on
\* every exit path: pool.shutdown() has been called once when the operation
\* has returned or raised, and not before.
C2_ShutdownOnce ==
    shutdowns = IF op # "idle" /\ pc = "returned" THEN 1 ELSE 0

\* on_remove_node has raised out of a failed unmount, the pool shut down
C2_Witness ==
    /\ op = "on_remove_node"
    /\ pc = "returned"
    /\ raised_at = "unmount"
    /\ exc = "error"
    /\ shutdowns = 1

\* C3: when the export step raises (reading or appending /etc/exports, or
\* 'exportfs -fra'), the operation fails and no mount job is handed to the
\* pool: every node's /etc/fstab and mount table are as the operation found
\* them.
C3_ExportFailureStopsOperation ==
    raised_at \in {"export", "export_write", "exportfs"} =>
        /\ exc = "error"
        /\ pc \in {"finally", "returned"}
        /\ \A n \in Workers : task[n] = NoTask
        /\ etc_fstab = start.etc_fstab
        /\ mount_map = start.mount_map

\* 'exportfs -fra' failed after lines had been appended to /etc/exports
C3_Witness ==
    /\ raised_at = "exportfs"
    /\ pc = "returned"
    /\ etc_exports # start.etc_exports

\* C4: once _mount_nfs_shares has got past pool.wait, every one of the
\* len(nodes) jobs has ended; a job that did not raise has run to its end,
\* with every path mounted on its node; the operation raises exactly when a
\* job raised; and the pool is shut down when the operation has ended.
C4_JoinWaitsForAll ==
    (/\ op \in SetupOps
     /\ pc \in {"finally", "returned"}
     /\ raised_at \in {"none", "wait"}) =>
        /\ \A j \in DOMAIN nodes : task[nodes[j]].pc \in {"done", "failed"}
        /\ \A j \in DOMAIN nodes :
              task[nodes[j]].pc = "done" =>
                 \A k \in DOMAIN nfs_mounts :
                    <<MasterAlias \o ":" \o nfs_mounts[k][1], nfs_mounts[k][2]>>
                        \in mount_map[nodes[j]]
        /\ (exc = "ThreadPoolException") <=>
              (\E j \in DOMAIN nodes : task[nodes[j]].pc = "failed")
        /\ pc = "returned" => shutdowns = 1

\* run has raised: the job of node001 failed, the job of node002 mounted
C4_Witness ==
    /\ op = "run"
    /\ pc = "returned"
    /\ task["node001"].pc = "failed"
    /\ task["node002"].pc = "done"
    /\ task["node002"].mount_paths # <<>>
    /\ exc = "ThreadPoolException"
    /\ shutdowns = 1

\* no line occurs twice in the file
NoDuplicateLines(lines) ==
    \A i, j \in DOMAIN lines : lines[i] = lines[j] => i = j

\* this operation is a run that follows a run which returned without raising,
\* on the same nodes
SecondRun == op = "run" /\ prev.op = "run" /\ prev.ok /\ prev.nodes = nodes

\* C5: when the second of two successive runs has ended, no line occurs twice
\* in any node's /etc/fstab or in /etc/exports, and each file holds the lines
\* it held after the first run.
C5_RunTwiceNoDuplicates ==
    (SecondRun /\ pc = "returned") =>
        /\ NoDuplicateLines(etc_exports)
        /\ \A n \in Workers : NoDuplicateLines(etc_fstab[n])
        /\ etc_exports = start.etc_exports
        /\ etc_fstab = start.etc_fstab

\* C6 as stated: the second run issues no mount command on a node and no
\* export command on the master.
C6_SecondRunNoCommands ==
    SecondRun =>
        /\ Issued(MasterAlias, "exportfs -fra") = {}
        /\ \A n \in Workers : \A k \in DOMAIN nfs_mounts :
              Issued(n, "mount " \o nfs_mounts[k][2]) = {}

\* the second run has got past 'exportfs -fra'
ReexportIssued ==
    \/ pc \in {"dispatch", "wait"}
    \/ pc \in {"finally", "returned"} /\ raised_at \in {"none", "wait", "exportfs"}

\* C6, amended: in the second run every job finds every path mounted, no
\* 'mount <client_path>' is issued and no line is written to /etc/fstab or
\* /etc/exports; 'exportfs -fra' is issued once all the same.
C6_SecondRunOnlyReexports ==
    SecondRun =>
        /\ \A n \in Workers : task[n].mount_paths = <<>>
        /\ \A n \in Workers : \A k \in DOMAIN nfs_mounts :
              Issued(n, "mount " \o nfs_mounts[k][2]) = {}
        /\ etc_fstab = start.etc_fstab
        /\ etc_exports = start.etc_exports
        /\ Cardinality(Issued(MasterAlias, "exportfs -fra")) =
              IF ReexportIssued THEN 1 ELSE 0

\* the second run has returned without raising, having re-exported
C6_Witness ==
    /\ SecondRun
    /\ pc = "returned"
    /\ exc = "none"
    /\ \A n \in Workers : task[n].pc = "done"
    /\ Cardinality(Issued(MasterAlias, "exportfs -fra")) = 1

\* C7: every line of /etc/exports is '<path> <alias>(<settings>)\n', the
\* settings being async,no_root_squash,no_subtree_check,rw when the plugin
\* was given none and the given ones otherwise.
C7_ExportLineSettings ==
    \A i \in DOMAIN etc_exports :
        \E n \in Workers, k \in DOMAIN nfs_mounts :
            etc_exports[i] =
                nfs_mounts[k][1] \o " " \o n \o "("
                \o (IF nfs_export_settings.isNone
                    THEN "async,no_root_squash,no_subtree_check,rw"
                    ELSE nfs_export_settings.s)
                \o ")\n"

\* C8: every line a mount job appends to /etc/fstab is
\* '<serverAlias>:<serverPath> <clientPath> nfs <settings> 0 0\n', the
\* settings being vers=3,user,rw,exec,noauto when the plugin was given none
\* and the given ones otherwise.
C8_FstabLineSettings ==
    \A n \in Workers : \A i \in DOMAIN etc_fstab[n] :
        \/ i <= Len(start.etc_fstab[n]) /\ etc_fstab[n][i] = start.etc_fstab[n][i]
        \/ \E k \in DOMAIN nfs_mounts :
              etc_fstab[n][i] =
                  "master:" \o nfs_mounts[k][1] \o " " \o nfs_mounts[k][2]
                  \o " nfs "
                  \o (IF nfs_mount_settings.isNone
                      THEN "vers=3,user,rw,exec,noauto"
                      ELSE nfs_mount_settings.s)
                  \o " 0 0\n"

\* a job has appended a line for /share with no mount settings configured
C8_Witness ==
    /\ nfs_mount_settings.isNone
    /\ nfs_mounts[1][2] = "/share"
    /\ Len(etc_fstab["node001"]) > Len(start.etc_fstab["node001"])

\* the umount commands sent to the removed node for client path k
Unmounts(k) == Issued(nodes[1], "umount -fl " \o nfs_mounts[k][2])

Links(k) ==
    Issued(MasterAlias,
           "ln -s " \o nfs_mounts[k][1] \o " " \o nfs_mounts[k][2])

\* the link loop is over and path_exists did not raise in it
LinkStepOver == pc # "link" /\ ~(raised_at = "link" /\ cmds = <<>>)

\* C10: in run with link_on_master true, the master is sent exactly one
\* 'ln -s <server_path> <client_path>' for a pair whose paths differ and
\* whose client path did not exist on the master, as the first command of
\* the operation and so before the export step; for a pair whose paths are
\* equal or whose client path existed it is sent none.
C10_LinkOnceBeforeExport ==
    (op = "run" /\ link_on_master) =>
        /\ \A k \in DOMAIN nfs_mounts :
              /\ Cardinality(Links(k)) =
                    IF /\ nfs_mounts[k][1] # nfs_mounts[k][2]
                       /\ nfs_mounts[k][2] \notin start.master_fs
                       /\ LinkStepOver
                    THEN 1 ELSE 0
              /\ \A i \in Links(k) :
                    /\ i <= Len(nfs_mounts)
                    /\ \A j \in Issued(MasterAlias, "exportfs -fra") : i < j
        /\ \A i \in DOMAIN cmds :
              StartsWith(cmds[i].cmd, "ln ") =>
                 \E k \in DOMAIN nfs_mounts : i \in Links(k)
        /\ pc = "link" => etc_exports = start.etc_exports /\ cmds = <<>>

\* run has returned after linking /share to /mnt on the master and exporting
C10_Witness ==
    /\ op = "run"
    /\ link_on_master
    /\ pc = "returned"
    /\ Links(1) = {1}
    /\ cmds[1].cmd = "ln -s /mnt /share"
    /\ Issued(MasterAlias, "exportfs -fra") # {}

\* C11: with link_on_master false the master is sent no link command by any
\* lifecycle operation, whether or not the client path exists there and
\* whether or not the two paths differ.
C11_NoLinkWhenDisabled ==
    ~link_on_master =>
        \A i \in DOMAIN cmds : ~StartsWith(cmds[i].cmd, "ln ")

\* C12: on_add_node sends the master nothing but the re-export of the export
\* step: no link command and no start of the NFS service, whatever exists on
\* the master.
C12_AddNodeOnlyExportsAndMounts ==
    op = "on_add_node" =>
        \A i \in DOMAIN cmds :
            cmds[i].host = MasterAlias => cmds[i].cmd = "exportfs -fra"

\* when this operation began no configured path was exported to a worker or
\* mounted on one
FreshStart ==
    /\ \A n \in Workers : \A k \in DOMAIN nfs_mounts :
          ~Contains(Join(start.etc_exports),
                    ExportLine(nfs_mounts[k][1], n, nfs_export_settings))
    /\ \A n \in Workers :
          MountPaths(start.mount_map[n]) = Keys(nfs_mounts)

\* the lines appended to a file since this operation began
Appended(now, before) == SubSeq(now, Len(before) + 1, Len(now))

\* C13: a run over N nodes that starts with nothing exported or mounted and
\* returns without raising has appended exactly one /etc/exports line for
\* every (path, node); every node's job has appended exactly one fstab line
\* and issued exactly one mount command for every path; exactly N jobs were
\* handed to the pool and all N had ended when the join returned.
C13_FreshRunCounts ==
    (op = "run" /\ pc = "returned" /\ exc = "none" /\ FreshStart) =>
        /\ Len(etc_exports) =
              Len(start.etc_exports) + Len(nodes) * Len(nfs_mounts)
        /\ \A j \in DOMAIN nodes : \A k \in DOMAIN nfs_mounts :
              LET new == Appended(etc_exports, start.etc_exports)
                  line == ExportLine(nfs_mounts[k][1], nodes[j],
                                     nfs_export_settings)
              IN  Cardinality({i \in DOMAIN new : new[i] = line}) = 1
        /\ \A j \in DOMAIN nodes :
              LET n == nodes[j]
                  new == Appended(etc_fstab[n], start.etc_fstab[n])
              IN  /\ Len(new) = Len(nfs_mounts)
                  /\ \A k \in DOMAIN nfs_mounts :
                        /\ Cardinality(
                              {i \in DOMAIN new :
                                  new[i] = FstabLine(MasterAlias,
                                                     nfs_mounts[k][1],
                                                     nfs_mounts[k][2],
                                                     nfs_mount_settings)}) = 1
                        /\ Cardinality(
                              Issued(n, "mount " \o nfs_mounts[k][2])) = 1
        /\ Cardinality({n \in Workers : task[n].pc # "none"}) = Len(nodes)
        /\ Cardinality(PoolCompleted) = Len(nodes)
        /\ Cardinality(Range(nodes)) = Len(nodes)

\* a run on the two workers of a cluster on which nothing was exported or
\* mounted has returned without raising
C13_Witness ==
    /\ op = "run" /\ pc = "returned" /\ exc = "none"
    /\ FreshStart
    /\ Len(nodes) = 2
    /\ Len(etc_exports) = Len(start.etc_exports) + 2
    /\ \A n \in Workers : task[n].pc = "done" /\ task[n].mount_paths # <<>>

\* the lines of a node's /etc/fstab whose first field is the device
DeviceLines(n, device) ==
    {i \in DOMAIN etc_fstab[n] : Field1(etc_fstab[n][i]) = device}

\* C14: after any sequence of lifecycle operations a node's /etc/fstab holds
\* at most one line for each network device master:<server path>, because
\* the cleanup step of the mount job removes the line an earlier operation
\* left before the new one is appended.
C14_OneFstabLinePerDevice ==
    \A n \in Workers : \A k \in DOMAIN nfs_mounts :
        Cardinality(DeviceLines(n, NetworkDevice(MasterAlias,
                                                  nfs_mounts[k][1]))) <= 1

\* C15: an export step of run or on_add_node that has got through its append
\* loop sends the master 'exportfs -fra' exactly once, also when it added no
\* line; at the moment it is about to send it every missing line is in
\* /etc/exports and the file is closed; an export step that has not got that
\* far has not sent it.
C15_ReexportOnceAfterAppends ==
    (op \in SetupOps /\ nodes # <<>>) =>
        LET sent == Issued(MasterAlias, "exportfs -fra")
            missing == ExportLinesFor(nodes, Keys(nfs_mounts),
                                      nfs_export_settings,
                                      Join(start.etc_exports))
        IN  /\ pc = "exportfs" =>
                  sent = {} /\ etc_exports = start.etc_exports \o missing
            /\ ReexportIssued => Cardinality(sent) = 1
            /\ (pc # "exportfs" /\ ~ReexportIssued) => sent = {}

\* an on_add_node whose export step found every line in /etc/exports and
\* added none has sent the re-export
C15_Witness ==
    /\ op = "on_add_node"
    /\ ReexportIssued
    /\ start.etc_exports # <<>>
    /\ etc_exports = start.etc_exports
    /\ Cardinality(Issued(MasterAlias, "exportfs -fra")) = 1

\* the command this step has sent to host n, when it has sent one
SentTo(n) ==
    IF Len(cmds') = Len(cmds) + 1 /\ cmds'[Len(cmds')].host = n
    THEN {cmds'[Len(cmds')]}
    ELSE {}

\* C16: in the mount job of a node the devpts mount goes on to the read of
\* the mount table whether it succeeded or failed; every other command or
\* call of the job that fails ends the job in that step; and a job that has
\* ended by failing executes nothing more: it sends its node no command and
\* leaves the node's fstab, mount table and directories alone.
C16_DevptsTolerated ==
    [][\A n \in Workers :
          /\ (task[n].pc = "devpts" /\ task'[n] # task[n]) =>
                /\ task'[n].pc = "get_mount_map"
                /\ \E c \in SentTo(n) : c.cmd = "mount -t devpts none /dev/pts"
          /\ (/\ task[n].pc \notin {"none", "queued", "devpts", "done", "failed"}
              /\ task'[n] # task[n]
              /\ \/ faults' > faults
                 \/ \E c \in SentTo(n) : ~c.ok) =>
                task'[n].pc = "failed"
          /\ (task[n].pc = "failed" /\ opsLeft' = opsLeft) =>
                /\ task'[n] = task[n]
                /\ SentTo(n) = {}
                /\ etc_fstab'[n] = etc_fstab[n]
                /\ mount_map'[n] = mount_map[n]
                /\ node_fs'[n] = node_fs[n]
      ]_vars

\* the devpts mount failed on a node and the node's job has gone on to mount
\* the share
C16_Witness ==
    \E i \in DOMAIN cmds :
        /\ cmds[i].cmd = "mount -t devpts none /dev/pts"
        /\ ~cmds[i].ok
        /\ task[cmds[i].host].pc = "done"
        /\ \E j \in DOMAIN cmds :
              /\ j > i
              /\ cmds[j].host = cmds[i].host
              /\ StartsWith(cmds[j].cmd, "mount /")
              /\ cmds[j].ok

\* the network device of the k-th path was in the mount table of node n when
\* this operation began
MountedAtStart(n, k) ==
    \E m \in start.mount_map[n] :
        m[1] = NetworkDevice(MasterAlias, nfs_mounts[k][1])

\* C17: in run and on_add_node, for a path whose network device was already
\* in a node's mount table the node's job leaves the path out of its work: no
\* fstab line for the device is written, no directory is created for its
\* mount point and no mount command is issued for it; when every configured
\* path was mounted, the node's /etc/fstab is what it was.
C17_MountedPathSkipped ==
    op \in SetupOps =>
        \A n \in Workers :
            /\ \A k \in DOMAIN nfs_mounts :
                  MountedAtStart(n, k) =>
                     LET device == NetworkDevice(MasterAlias, nfs_mounts[k][1])
                         before == {i \in DOMAIN start.etc_fstab[n] :
                                       Field1(start.etc_fstab[n][i]) = device}
                     IN  /\ nfs_mounts[k][1] \notin Range(task[n].mount_paths)
                         /\ Cardinality(DeviceLines(n, device))
                               <= Cardinality(before)
                         /\ nfs_mounts[k][2] \in node_fs[n] =>
                               nfs_mounts[k][2] \in start.node_fs[n]
                         /\ Issued(n, "mount " \o nfs_mounts[k][2]) = {}
            /\ (\A k \in DOMAIN nfs_mounts : MountedAtStart(n, k)) =>
                  /\ etc_fstab[n] = start.etc_fstab[n]
                  /\ node_fs[n] = start.node_fs[n]
                  /\ mount_map[n] = start.mount_map[n]

\* the job of a node on which the share was already mounted has run to its
\* end
C17_Witness ==
    /\ op = "on_add_node"
    /\ \A k \in DOMAIN nfs_mounts : MountedAtStart(nodes[1], k)
    /\ task[nodes[1]].pc = "done"
    /\ pc = "returned"
    /\ exc = "none"

\* the first position of the log at which host n was sent a command that
\* starts with prefix, and 0 when there is none
FirstSent(n, prefix) ==
    LET at == {i \in DOMAIN cmds :
                  cmds[i].host = n /\ StartsWith(cmds[i].cmd, prefix)}
    IN  IF at = {} THEN 0 ELSE CHOOSE i \in at : \A j \in at : i <= j

\* C18: the steps of a node's mount job run in order.  Until the mount table
\* has been read the node's /etc/fstab is what it was; when the job is about
\* to issue, or has issued, 'mount <client path>' for a path, the fstab line
\* of that path has been appended and the client path exists as a directory
\* on the node; and the commands reach the node in the order portmap,
\* devpts, mount.
C18_TaskStepsInOrder ==
    op \in SetupOps =>
        \A n \in Workers :
            /\ task[n].pc \in {"none", "queued", "portmap", "devpts",
                               "get_mount_map", "remove_lines"} =>
                  /\ etc_fstab[n] = start.etc_fstab[n]
                  /\ node_fs[n] = start.node_fs[n]
                  /\ FirstSent(n, "mount /") = 0
            /\ task[n].pc \in {"none", "queued", "portmap", "devpts",
                               "get_mount_map"} =>
                  task[n].mount_paths = <<>>
            /\ \A k \in DOMAIN nfs_mounts :
                  (\/ Issued(n, "mount " \o nfs_mounts[k][2]) # {}
                   \/ /\ task[n].pc = "mount"
                      /\ task[n].mount_paths[task[n].i] = nfs_mounts[k][1]) =>
                     /\ \E i \in DOMAIN Appended(etc_fstab[n],
                                                 start.etc_fstab[n]) :
                           Appended(etc_fstab[n], start.etc_fstab[n])[i] =
                              FstabLine(MasterAlias, nfs_mounts[k][1],
                                        nfs_mounts[k][2], nfs_mount_settings)
                     /\ nfs_mounts[k][2] \in node_fs[n]
            /\ FirstSent(n, "mount /") # 0 =>
                  /\ FirstSent(n, "/etc/init.d/portmap") # 0
                  /\ FirstSent(n, "/etc/init.d/portmap")
                        < FirstSent(n, "mount -t devpts")
                  /\ FirstSent(n, "mount -t devpts") < FirstSent(n, "mount /")

\* a node's job has created the missing client path and issued the mount
C18_Witness ==
    \E n \in Workers : \E k \in DOMAIN nfs_mounts :
        /\ op \in SetupOps
        /\ nfs_mounts[k][2] \notin start.node_fs[n]
        /\ nfs_mounts[k][2] \in node_fs[n]
        /\ \E i \in Issued(n, "mount " \o nfs_mounts[k][2]) : cmds[i].ok

\* C19: in run and on_add_node, however the mount jobs interleave, a step
\* that changes a node's /etc/fstab or mount table is a step of that node's
\* own job and changes no other node's files; /etc/exports changes only in
\* the export step of the calling thread, while no job has been handed to the
\* pool; so no file has two writers.
C19_SingleWriter ==
    [][(op \in SetupOps) =>
          (/\ (etc_exports' # etc_exports) =>
                 (/\ pc = "export_write"
                  /\ \A n \in Workers : task[n].pc = "none"
                  /\ task' = task
                  /\ etc_fstab' = etc_fstab
                  /\ mount_map' = mount_map)
           /\ (\E n \in Workers : task[n].pc # "none") =>
                 (etc_exports' = etc_exports)
           /\ \A n \in Workers :
                 (etc_fstab'[n] # etc_fstab[n] \/ mount_map'[n] # mount_map[n]) =>
                    (/\ task[n].pc \in {"remove_lines", "fstab", "mount"}
                     /\ task'[n] # task[n]
                     /\ pc' = pc
                     /\ \A m \in Workers \ {n} :
                           /\ task'[m] = task[m]
                           /\ etc_fstab'[m] = etc_fstab[m]
                           /\ mount_map'[m] = mount_map[m]))
    ]_vars

\* the jobs of the two workers run at the same time; one has written its
\* node's fstab and the other is about to write its own
C19_Witness ==
    /\ op = "run"
    /\ PoolRunning = Workers
    /\ \E n \in Workers :
          /\ etc_fstab[n] # start.etc_fstab[n]
          /\ \A m \in Workers \ {n} :
                task[m].pc = "fstab" /\ etc_fstab[m] = start.etc_fstab[m]

\* the export step of this operation has run to its end without raising
ExportStepDone ==
    /\ op \in SetupOps
    /\ \/ pc \in {"dispatch", "wait"}
       \/ pc \in {"finally", "returned"} /\ raised_at \in {"none", "wait"}

\* C20: when the export step has completed without raising, /etc/exports has
\* for every (path, node) a whole line equal to '<path> <alias>(<settings>)',
\* whatever the file held before.
C20_CompleteLineForEveryPair ==
    ExportStepDone =>
        \A j \in DOMAIN nodes : \A k \in DOMAIN nfs_mounts :
            \E i \in DOMAIN etc_exports :
                etc_exports[i] = ExportLine(nfs_mounts[k][1], nodes[j],
                                            nfs_export_settings)

====
